---- MODULE Spec2Model ----
(***************************************************************************)
(* A model of the versioned object catalog of catalog/rocks/catalog.go:    *)
(* the Catalog facade over RefManager (branches, commits, merge base),     *)
(* CommittedManager (immutable trees) and StagingManager (per-branch       *)
(* staging tokens with tombstones).                                        *)
(*                                                                         *)
(* catalog.go declares the types and the interfaces; the orchestration of  *)
(* Commit, Merge and the read path is taken from the design document of    *)
(* the catalog (spec.md sections 4 and 5).                                 *)
(***************************************************************************)
EXTENDS Integers, Sequences, FiniteSets, TLC

\* ------------------------------------------------------------------ bounds
MaxCommits == 3      \* the initial commit and the commits made by Commit
MaxMerges == 1       \* merge commits
MaxWrites == 2       \* SetEntry / DeleteEntry calls in one behaviour
MaxNodes == 4        \* commits of an arbitrary DAG handed to FindMergeBase
MaxAmount == 2       \* the amount argument of ListEntries
MaxKey == 3          \* keys of the records an iterator runs over
MaxUploads == 1      \* multipart uploads created in one behaviour
MaxChunks == 2       \* chunks the source of copyFromReader holds
MaxBuffers == 2      \* buffers (and concurrent writers) of the TransferManager

\* Staging tokens ever allocated: the initial one, one per CreateBranch of the
\* second branch, one per Snapshot of a Commit
MaxTokens == MaxCommits + 1

\* ------------------------------------------------------------- basic types
PathOrder == <<"a", "b">>                \* Path, in byte-wise order
Paths == {PathOrder[i] : i \in 1..Len(PathOrder)}
Entries == {"e1", "e2"}                  \* Entry values (address, ETag, metadata)
Branches == {"main", "dev"}              \* BranchID
Procs == {1, 2}                          \* concurrent callers of Catalog.Commit

Nil == "nil"                             \* a nil *Entry
NotFound == "NotFound"                   \* ErrNotFound / absence
NoCommit == 0                            \* no CommitID
NoToken == 0                             \* no StagingToken

\* Variant: no entry is a tombstone
IsTombstoneNever(e) == FALSE

\* func (e *Entry) IsTombstone() bool { return e == nil }
IsTombstone(e) == e = Nil

\* DiffType
DiffTypeAdded == "added"
DiffTypeRemoved == "removed"
DiffTypeChanged == "changed"
DiffTypeConflict == "conflict"

\* Branch: a pointer to a commit, with its staging token
Branch(c, t) == [CommitID |-> c, stagingToken |-> t]
NoBranch == Branch(NoCommit, NoToken)

\* Commit: tree and ordered parents (the other fields do not steer the catalog)
Commit(tree, parents) == [TreeID |-> tree, Parents |-> parents]

\* Ref: a commit ID or a branch name, as a tagged variant
BranchRef(b) == [kind |-> "branch", branch |-> b, commit |-> 0]
CommitRef(c) == [kind |-> "commit", branch |-> "", commit |-> c]
NoRef == [kind |-> "none", branch |-> "", commit |-> 0]

\* A tree is its content: equal contents, equal TreeID
EmptyTree == [p \in Paths |-> NotFound]
\* A staging namespace: Path -> Entry, Nil (tombstone) or NotFound (nothing staged)
EmptyStaging == [p \in Paths |-> NotFound]

VARIABLES
  commits,     \* RefManager: CommitID -> Commit, CommitID = position (creation order)
  branches,    \* RefManager: BranchID -> Branch, NoBranch when the branch does not exist
  staging,     \* StagingManager: StagingToken -> staging namespace
  nextToken,   \* StagingManager: the next fresh StagingToken
  dropped,     \* StagingManager: tokens whose storage was dropped
  proc,        \* the callers of Catalog.Commit: position and locals
  mrg,         \* the caller of Catalog.Merge: position and locals
  writes,      \* number of SetEntry / DeleteEntry calls made
  ret,         \* what the last call returned (NoRet for a step that returns nothing)
  rt,          \* history: a write followed by an uninterrupted Commit on its branch
  last,        \* history: the last write, and whether a Commit or Merge step
               \* on its branch has intervened since
  call,        \* the listing call or the iterator under way: arguments and position
  mpu,         \* KVMultipartManager: the uploads, their parts and the workspaces in the store
  copier       \* copyFromReader: the copier, its writers and the block writers

vars == <<commits, branches, staging, nextToken, dropped, proc, mrg, writes, ret, rt, last,
          call, mpu, copier>>

\* The catalog's own state
core == <<commits, branches, staging, nextToken, dropped>>

CommitIDs == 1..Len(commits)

\* --------------------------------------------------------------- RefManager
GetBranch(b) == branches[b]

GetCommit(c) == commits[c]

\* SetBranch points the given BranchID at the given Branch metadata
SetBranch(b, branch) == [branches EXCEPT ![b] = branch]

\* AddCommit stores the Commit object, returning its ID
AddCommit(commit) == Append(commits, commit)
AddCommitID == Len(commits) + 1

\* Variant: every Ref resolves to the first commit
DereferenceFirst(ref) == 1

\* Variant: a staging listing that always yields one tombstone
StagingListEntriesPhantom(st) == <<[Path |-> PathOrder[1], Entry |-> Nil]>>

\* Dereference translates Ref to the corresponding CommitID
Dereference(ref) ==
  IF ref.kind = "commit"
  THEN IF ref.commit \in CommitIDs THEN ref.commit ELSE NoCommit
  ELSE GetBranch(ref.branch).CommitID

\* The parents of a commit of the DAG cs, as a set
ParentsOf(cs, c) == {cs[c].Parents[i] : i \in 1..Len(cs[c].Parents)}

\* The latest of a non-empty set of commits (creation time, then CommitID order)
Latest(S) == CHOOSE c \in S : \A d \in S : d <= c

\* The simultaneous breadth-first walks from a and b over parent edges: VA, VB are
\* the commits marked by each walk, FA, FB the frontiers; the first commit marked
\* by both walks is the base
RECURSIVE Walk(_, _, _, _, _)
Walk(cs, VA, VB, FA, FB) ==
  IF VA \cap VB # {} THEN Latest(VA \cap VB)
  ELSE IF FA = {} /\ FB = {} THEN NoCommit
  ELSE LET NA == UNION {ParentsOf(cs, c) : c \in FA} \ VA
           NB == UNION {ParentsOf(cs, c) : c \in FB} \ VB
       IN  Walk(cs, VA \cup NA, VB \cup NB, NA, NB)

\* FindMergeBase returns the merge-base for the given CommitIDs (NoCommit: NotFound)
FindMergeBaseIn(cs, a, b) == Walk(cs, {a}, {b}, {a}, {b})
FindMergeBase(a, b) == FindMergeBaseIn(commits, a, b)

\* ----------------------------------------------------------- StagingManager
\* Variant: a staging read that never finds anything
StagingGetEntryMiss(st, path) == NotFound

\* GetEntry returns the entry at path (nil for a tombstone), ErrNotFound if none
StagingGetEntry(st, path) == staging[st][path]

\* Variant: a staging write that is lost
StagingSetEntryLost(b, path, entry) == staging

\* SetEntry writes an entry (or nil entry to represent a tombstone) under the
\* branch's current token
StagingSetEntry(b, path, entry) ==
  [staging EXCEPT ![GetBranch(b).stagingToken][path] = entry]

\* DeleteEntry: deletes are written as tombstones (null entry)
StagingDeleteEntry(b, path) == StagingSetEntry(b, path, Nil)

RECURSIVE ScanFrom(_, _)
ScanFrom(ns, i) ==
  IF i > Len(PathOrder) THEN <<>>
  ELSE IF ns[PathOrder[i]] = NotFound THEN ScanFrom(ns, i + 1)
  ELSE <<[Path |-> PathOrder[i], Entry |-> ns[PathOrder[i]]]>> \o ScanFrom(ns, i + 1)

\* ListEntries: the EntryRecords of the token in ascending path order, tombstones included
StagingListEntries(st) == ScanFrom(staging[st], 1)

\* ListSnapshot returns an iterator to scan the snapshot entries
ListSnapshot(st) == ScanFrom(staging[st], 1)

\* --------------------------------------------------------- CommittedManager
\* Variant: a committed read that never finds anything
CommittedGetEntryMiss(tree, path) == NotFound

\* GetEntry returns the provided path, if exists, from the provided TreeID
CommittedGetEntry(tree, path) == tree[path]

RECURSIVE ApplyFrom(_, _, _)
ApplyFrom(tree, changes, i) ==
  IF i > Len(changes) THEN tree
  ELSE ApplyFrom([tree EXCEPT ![changes[i].Path] =
                    IF IsTombstone(changes[i].Entry) THEN NotFound ELSE changes[i].Entry],
                 changes, i + 1)

\* Variant: an Apply that writes the entries of the changes and skips their tombstones
ApplyKeepsDeleted(tree, changes) ==
  [p \in Paths |->
     IF \E i \in 1..Len(changes) : changes[i].Path = p /\ ~IsTombstone(changes[i].Entry)
     THEN (CHOOSE r \in {changes[i] : i \in 1..Len(changes)} : r.Path = p).Entry
     ELSE tree[p]]

\* Apply takes an existing tree and applies a set of changes to it: a change is
\* an entity to write/overwrite, or a tombstone to mark a deletion
Apply(tree, changes) == ApplyFrom(tree, changes, 1)

\* The DiffType of one path from left towards right, base resolving the type
\* ("none": the path is equal in left and right and is not yielded)
DiffTypeOf(l, r, b) ==
  IF l = r THEN "none"
  ELSE IF l # b /\ r # b THEN DiffTypeConflict
  ELSE IF l = NotFound THEN DiffTypeAdded
  ELSE IF r = NotFound THEN DiffTypeRemoved
  ELSE DiffTypeChanged

\* Variant: a Diff that stops after the first path
DiffFromFirst(left, right, base, i) ==
  IF i > 1 THEN <<>>
  ELSE LET p == PathOrder[i]
           t == DiffTypeOf(CommittedGetEntry(left, p), CommittedGetEntry(right, p),
                           CommittedGetEntry(base, p))
       IN  IF t = "none" THEN <<>> ELSE <<[Path |-> p, Type |-> t]>>

RECURSIVE DiffFrom(_, _, _, _)
DiffFrom(left, right, base, i) ==
  IF i > Len(PathOrder) THEN <<>>
  ELSE LET p == PathOrder[i]
           t == DiffTypeOf(CommittedGetEntry(left, p), CommittedGetEntry(right, p),
                           CommittedGetEntry(base, p))
       IN  (IF t = "none" THEN <<>> ELSE <<[Path |-> p, Type |-> t]>>)
           \o DiffFrom(left, right, base, i + 1)

\* Variant: a Diff that yields every path as a conflict
DiffAllConflict(left, right, base) ==
  [i \in 1..Len(PathOrder) |-> [Path |-> PathOrder[i], Type |-> DiffTypeConflict]]

\* Diff receives two trees and a 3rd merge base tree used to resolve the change
\* type; it tracks changes from left to right
Diff(left, right, base) == DiffFrom(left, right, base, 1)

\* The paths Diff yields as conflicts
ConflictsOf(d) == {d[i].Path : i \in {j \in 1..Len(d) : d[j].Type = DiffTypeConflict}}

\* Merge applies the changes of right since base onto left; with conflicts it
\* fails, naming the conflicting paths
Merge(left, right, base) ==
  LET d == Diff(left, right, base)
  IN  IF ConflictsOf(d) # {}
      THEN [conflicts |-> ConflictsOf(d), tree |-> left]
      ELSE [conflicts |-> {},
            tree |-> [p \in Paths |->
                        IF CommittedGetEntry(right, p) # CommittedGetEntry(base, p)
                        THEN CommittedGetEntry(right, p)
                        ELSE CommittedGetEntry(left, p)]]

\* ------------------------------------------------------------------ Catalog
BranchExists(b) == GetBranch(b) # NoBranch

\* Catalog.GetEntry: staging first when ref is a branch, then the committed tree
CatalogGetEntry(ref, path) ==
  IF Dereference(ref) = NoCommit THEN NotFound
  ELSE LET staged == IF ref.kind = "branch"
                     THEN StagingGetEntry(GetBranch(ref.branch).stagingToken, path)
                     ELSE NotFound
       IN  IF staged # NotFound
           THEN IF IsTombstone(staged) THEN NotFound ELSE staged
           ELSE CommittedGetEntry(GetCommit(Dereference(ref)).TreeID, path)

Idle == [pc |-> "idle", branch |-> "main", old |-> NoToken, new |-> NoToken,
         C |-> NoCommit, newCommit |-> NoCommit, frozen |-> EmptyStaging]

MergeIdle == [pc |-> "idle", to |-> "main", tok |-> NoToken, target |-> NoCommit,
              T |-> NoCommit, F |-> NoCommit, base |-> NoCommit]

NoRet == [op |-> "none", branch |-> "", from |-> NoRef, result |-> "none",
          conflicts |-> {}, a |-> NoCommit, b |-> NoCommit, base |-> NoCommit,
          tree |-> EmptyTree, list |-> <<>>]
Ret(op, b, result) == [NoRet EXCEPT !.op = op, !.branch = b, !.result = result]

\* No listing call and no iterator
NoCall == [op |-> "none"]
\* No multipart store and no copier
NoMultipart == [op |-> "none"]
NoCopier == [pc |-> "none"]

NoWrite == [stage |-> "none", branch |-> "", path |-> "", entry |-> Nil, p |-> 0,
            intact |-> FALSE]
Written(b, path, entry) ==
  [stage |-> "written", branch |-> b, path |-> path, entry |-> entry, p |-> 0,
   intact |-> TRUE]

\* rt after a step of Commit caller p that is not its first or its last
RtKeep(p) == IF rt.stage = "committing" /\ rt.p = p THEN rt ELSE NoWrite
\* last after a step of a Commit or a Merge that changes branch b or its staging
Intervened(b) == IF last.branch = b THEN [last EXCEPT !.intact = FALSE] ELSE last

Init ==
  /\ commits = <<Commit(EmptyTree, <<>>)>>
  /\ branches = [b \in Branches |-> IF b = "main" THEN Branch(1, 1) ELSE NoBranch]
  /\ staging = [t \in 1..MaxTokens |-> EmptyStaging]
  /\ nextToken = 2
  /\ dropped = {}
  /\ proc = [p \in Procs |-> Idle]
  /\ mrg = MergeIdle
  /\ writes = 0
  /\ ret = NoRet
  /\ rt = NoWrite
  /\ last = NoWrite
  /\ mpu = NoMultipart
  /\ copier = NoCopier
  /\ call = NoCall

\* Catalog.SetEntry
SetEntry(b, path, entry) ==
  /\ BranchExists(b)
  /\ writes < MaxWrites
  /\ staging' = StagingSetEntry(b, path, entry)
  /\ writes' = writes + 1
  /\ ret' = NoRet
  /\ rt' = Written(b, path, entry)
  /\ last' = Written(b, path, entry)
  /\ UNCHANGED <<mpu, copier, call, commits, branches, nextToken, dropped, proc, mrg>>

\* Catalog.DeleteEntry
DeleteEntry(b, path) ==
  /\ BranchExists(b)
  /\ writes < MaxWrites
  /\ staging' = StagingDeleteEntry(b, path)
  /\ writes' = writes + 1
  /\ ret' = NoRet
  /\ rt' = Written(b, path, Nil)
  /\ last' = Written(b, path, Nil)
  /\ UNCHANGED <<mpu, copier, call, commits, branches, nextToken, dropped, proc, mrg>>

\* StagingManager.Snapshot: a fresh token becomes the branch's current token;
\* the token passed in is frozen
Snapshot(b, st) == [branches EXCEPT ![b].stagingToken = nextToken]

\* Drop of a token's storage
DropToken(st) == [staging EXCEPT ![st] = EmptyStaging]

\* A caller slot may start when every lower slot is busy (the slots are interchangeable)
MayStart(p) == proc[p].pc = "idle" /\ \A q \in Procs : q < p => proc[q].pc # "idle"

\* The commits with at most one parent (the initial one, those made by Commit)
\* and the merge commits
Committed == Cardinality({c \in CommitIDs : Len(commits[c].Parents) < 2})
Merged == Cardinality({c \in CommitIDs : Len(commits[c].Parents) = 2})

\* Commits that callers have begun and not yet recorded
Pending == Cardinality({q \in Procs : proc[q].pc \in {"snapshot", "load", "apply"}})

\* Catalog.Commit, entry: fail with NothingToCommit when nothing is staged
CommitBegin(p, b) ==
  /\ MayStart(p)
  /\ BranchExists(b)
  /\ IF StagingListEntries(GetBranch(b).stagingToken) = <<>>
     THEN /\ proc' = [proc EXCEPT ![p] = [Idle EXCEPT !.branch = b]]
          /\ ret' = Ret("Commit", b, "NothingToCommit")
          /\ rt' = NoWrite
     ELSE /\ nextToken <= MaxTokens
          /\ Committed + Pending < MaxCommits
          /\ proc' = [proc EXCEPT ![p] = [Idle EXCEPT !.pc = "snapshot", !.branch = b]]
          /\ ret' = Ret("Commit", b, "started")
          /\ rt' = IF rt.stage = "written" /\ rt.branch = b
                   THEN [rt EXCEPT !.stage = "committing", !.p = p] ELSE NoWrite
  /\ UNCHANGED <<mpu, copier, call, commits, branches, staging, nextToken, dropped, mrg, writes, last>>

\* Catalog.Commit, step 1: oldToken, newToken <- StagingManager.Snapshot(B)
CommitSnapshot(p) ==
  /\ proc[p].pc = "snapshot"
  /\ nextToken <= MaxTokens
  /\ LET b == proc[p].branch
         st == GetBranch(b).stagingToken
     IN  /\ branches' = Snapshot(b, st)
         /\ proc' = [proc EXCEPT ![p].pc = "load", ![p].old = st, ![p].new = nextToken,
                                 ![p].frozen = staging[st]]
         /\ last' = Intervened(b)
  /\ nextToken' = nextToken + 1
  /\ ret' = NoRet
  /\ rt' = RtKeep(p)
  /\ UNCHANGED <<mpu, copier, call, commits, staging, dropped, mrg, writes>>

\* Catalog.Commit, step 2: load B's current commit C
CommitLoad(p) ==
  /\ proc[p].pc = "load"
  /\ proc' = [proc EXCEPT ![p].pc = "apply", ![p].C = GetBranch(proc[p].branch).CommitID]
  /\ ret' = NoRet
  /\ rt' = RtKeep(p)
  /\ UNCHANGED <<mpu, copier, call, commits, branches, staging, nextToken, dropped, mrg, writes, last>>

\* Catalog.Commit, steps 3 and 4: Apply the snapshot over C's tree, AddCommit with parents [C]
CommitApply(p) ==
  /\ proc[p].pc = "apply"
  /\ Committed < MaxCommits
  /\ LET newTree == Apply(GetCommit(proc[p].C).TreeID, ListSnapshot(proc[p].old))
     IN  commits' = AddCommit(Commit(newTree, <<proc[p].C>>))
  /\ proc' = [proc EXCEPT ![p].pc = "setbranch", ![p].newCommit = AddCommitID]
  /\ ret' = NoRet
  /\ rt' = RtKeep(p)
  /\ UNCHANGED <<mpu, copier, call, branches, staging, nextToken, dropped, mrg, writes, last>>

\* Catalog.Commit, step 5: SetBranch(B, {newCommit, newToken})
CommitSetBranch(p) ==
  /\ proc[p].pc = "setbranch"
  /\ branches' = SetBranch(proc[p].branch, Branch(proc[p].newCommit, proc[p].new))
  /\ proc' = [proc EXCEPT ![p].pc = "drop"]
  /\ ret' = NoRet
  /\ rt' = RtKeep(p)
  /\ last' = Intervened(proc[p].branch)
  /\ UNCHANGED <<mpu, copier, call, commits, staging, nextToken, dropped, mrg, writes>>

\* Catalog.Commit, step 6: drop oldToken's storage, return the new CommitID
CommitDrop(p) ==
  /\ proc[p].pc = "drop"
  /\ staging' = DropToken(proc[p].old)
  /\ dropped' = dropped \cup {proc[p].old}
  /\ proc' = [proc EXCEPT ![p] = [Idle EXCEPT !.branch = proc[p].branch]]
  /\ ret' = Ret("Commit", proc[p].branch, "ok")
  /\ rt' = IF rt.stage = "committing" /\ rt.p = p
           THEN [rt EXCEPT !.stage = "done"] ELSE NoWrite
  /\ last' = Intervened(proc[p].branch)
  /\ UNCHANGED <<mpu, copier, call, commits, branches, nextToken, mrg, writes>>

\* Catalog.CreateBranch: the branch points at the dereferenced ref, with a fresh token
CreateBranch(b, ref) ==
  /\ ~BranchExists(b)
  /\ Dereference(ref) # NoCommit
  /\ nextToken <= MaxTokens
  /\ branches' = SetBranch(b, Branch(Dereference(ref), nextToken))
  /\ nextToken' = nextToken + 1
  /\ ret' = NoRet
  /\ rt' = NoWrite
  /\ UNCHANGED <<mpu, copier, call, commits, staging, dropped, proc, mrg, writes, last>>

\* Catalog.Merge, steps 1 to 4 up to AddCommit: resolve F and T, find the base,
\* fast-forward or no-op, otherwise merge the trees and record the merge commit
MergeBegin(from, to) ==
  /\ mrg.pc = "idle"
  /\ BranchExists(to)
  /\ Dereference(from) # NoCommit
  /\ LET F == Dereference(from)
         T == GetBranch(to).CommitID
         base == FindMergeBase(F, T)
         m == Merge(GetCommit(T).TreeID, GetCommit(F).TreeID, GetCommit(base).TreeID)
         begun == [MergeIdle EXCEPT !.pc = "setbranch", !.to = to, !.T = T, !.F = F,
                                    !.base = base, !.tok = GetBranch(to).stagingToken]
         r == [Ret("Merge", to, "started") EXCEPT !.from = from, !.a = F, !.b = T,
                                                  !.base = base]
     IN  IF base = NoCommit
         THEN /\ mrg' = MergeIdle
              /\ ret' = [r EXCEPT !.result = NotFound]
              /\ UNCHANGED commits
         ELSE IF base = T
         THEN /\ mrg' = [begun EXCEPT !.target = F]
              /\ ret' = r
              /\ UNCHANGED commits
         ELSE IF base = F
         THEN /\ mrg' = MergeIdle
              /\ ret' = [r EXCEPT !.result = "ok"]
              /\ UNCHANGED commits
         ELSE IF m.conflicts # {}
         THEN /\ mrg' = MergeIdle
              /\ ret' = [r EXCEPT !.result = "Conflict", !.conflicts = m.conflicts]
              /\ UNCHANGED commits
         ELSE /\ Merged < MaxMerges
              /\ commits' = AddCommit(Commit(m.tree, <<T, F>>))
              /\ mrg' = [begun EXCEPT !.target = AddCommitID]
              /\ ret' = r
  /\ rt' = NoWrite
  /\ UNCHANGED <<mpu, copier, call, branches, staging, nextToken, dropped, proc, writes, last>>

\* Catalog.Merge, last step: advance branch `to`
MergeSetBranch ==
  /\ mrg.pc = "setbranch"
  /\ branches' = SetBranch(mrg.to, Branch(mrg.target, mrg.tok))
  /\ mrg' = MergeIdle
  /\ ret' = [Ret("Merge", mrg.to, "ok") EXCEPT !.a = mrg.F, !.b = mrg.T, !.base = mrg.base]
  /\ rt' = NoWrite
  /\ last' = Intervened(mrg.to)
  /\ UNCHANGED <<mpu, copier, call, commits, staging, nextToken, dropped, proc, writes>>

Refs == {BranchRef(b) : b \in Branches} \cup {CommitRef(c) : c \in CommitIDs}

WriteStep ==
  \/ \E b \in Branches, path \in Paths, e \in Entries : SetEntry(b, path, e)
  \/ \E b \in Branches, path \in Paths : DeleteEntry(b, path)

CommitStep(p) ==
  \/ \E b \in Branches : CommitBegin(p, b)
  \/ CommitSnapshot(p)
  \/ CommitLoad(p)
  \/ CommitApply(p)
  \/ CommitSetBranch(p)
  \/ CommitDrop(p)

\* Writers and concurrent Commits on the default branch
Next ==
  \/ WriteStep
  \/ \E p \in Procs : CommitStep(p)

Spec == Init /\ [][Next]_vars

\* No call is in progress
Quiet == mrg.pc = "idle" /\ \A p \in Procs : proc[p].pc = "idle"

\* Two branches, calls made one at a time: writes, CreateBranch, Commit and Merge
MergeNext ==
  \/ Quiet /\ WriteStep
  \/ Quiet /\ \E b \in Branches, ref \in Refs : CreateBranch(b, ref)
  \/ mrg.pc = "idle" /\ CommitStep(1)
  \/ Quiet /\ \E from \in Branches, to \in Branches : MergeBegin(BranchRef(from), to)
  \/ MergeSetBranch

MergeSpec == Init /\ [][MergeNext]_vars

\* ------------------------------------------------------- a canceled Commit
\* Catalog.Commit canceled between Apply/AddCommit and SetBranch: the call
\* returns Canceled; the tree and the commit stay behind, nothing is undone
CommitCancel(p) ==
  /\ proc[p].pc = "setbranch"
  /\ call' = [op |-> "Canceled", branch |-> proc[p].branch, C |-> proc[p].C,
              old |-> proc[p].old, frozen |-> proc[p].frozen, n |-> Len(commits)]
  /\ proc' = [proc EXCEPT ![p] = [Idle EXCEPT !.branch = proc[p].branch]]
  /\ ret' = Ret("Commit", proc[p].branch, "Canceled")
  /\ rt' = NoWrite
  /\ UNCHANGED <<mpu, copier, commits, branches, staging, nextToken, dropped, mrg, writes, last>>

\* Writers and one Commit caller whose Commit may be canceled and retried
CancelNext ==
  \/ WriteStep
  \/ CommitStep(1)
  \/ CommitCancel(1)

CancelSpec == Init /\ [][CancelNext]_vars

\* ------------------------------------------------- FindMergeBase on any DAG
\* The parent lists a commit n may have: none, one or two distinct earlier commits
ParentLists(n) ==
  {<<>>} \cup {<<i>> : i \in 1..(n - 1)}
         \cup {<<pr[1], pr[2]>> : pr \in {q \in (1..(n - 1)) \X (1..(n - 1)) : q[1] # q[2]}}

\* Every commit DAG of n commits, in creation order
RECURSIVE DAGs(_)
DAGs(n) ==
  IF n = 0 THEN {<<>>}
  ELSE {Append(cs, Commit(EmptyTree, pl)) : cs \in DAGs(n - 1), pl \in ParentLists(n)}

MergeBaseInit ==
  /\ commits \in DAGs(MaxNodes)
  /\ branches = [b \in Branches |-> IF b = "main" THEN Branch(1, 1) ELSE NoBranch]
  /\ staging = [t \in 1..MaxTokens |-> EmptyStaging]
  /\ nextToken = 2
  /\ dropped = {}
  /\ proc = [p \in Procs |-> Idle]
  /\ mrg = MergeIdle
  /\ writes = 0
  /\ ret = NoRet
  /\ rt = NoWrite
  /\ last = NoWrite
  /\ mpu = NoMultipart
  /\ copier = NoCopier
  /\ call = NoCall

\* A call of RefManager.FindMergeBase(a, b)
FindMergeBaseCall(a, b) ==
  /\ ret' = [NoRet EXCEPT !.op = "FindMergeBase", !.a = a, !.b = b,
                          !.base = FindMergeBase(a, b),
                          !.result = IF FindMergeBase(a, b) = NoCommit THEN NotFound ELSE "ok"]
  /\ UNCHANGED <<mpu, copier, call, commits, branches, staging, nextToken, dropped, proc, mrg, writes, rt, last>>

MergeBaseNext == \E a \in CommitIDs, b \in CommitIDs : FindMergeBaseCall(a, b)

MergeBaseSpec == MergeBaseInit /\ [][MergeBaseNext]_vars

\* ------------------------------------- CommittedManager on any three trees
\* Every tree and every staging namespace over Paths
Trees == [Paths -> Entries \cup {NotFound}]
Namespaces == [Paths -> Entries \cup {Nil, NotFound}]

\* The three trees of a call are the trees of commits 1 (left), 2 (right) and
\* 3 (base); the changes of an Apply are the entries of token 1
TreeInit ==
  /\ \E l \in Trees, r \in Trees, b \in Trees :
       commits = <<Commit(l, <<>>), Commit(r, <<>>), Commit(b, <<>>)>>
  /\ \E ns \in Namespaces :
       staging = [t \in 1..MaxTokens |-> IF t = 1 THEN ns ELSE EmptyStaging]
  /\ branches = [b \in Branches |-> IF b = "main" THEN Branch(1, 1) ELSE NoBranch]
  /\ nextToken = 2
  /\ dropped = {}
  /\ proc = [p \in Procs |-> Idle]
  /\ mrg = MergeIdle
  /\ writes = 0
  /\ ret = NoRet
  /\ rt = NoWrite
  /\ last = NoWrite
  /\ mpu = NoMultipart
  /\ copier = NoCopier
  /\ call = NoCall

\* A call of CommittedManager.Diff(left, right, base)
DiffCall ==
  /\ ret' = [NoRet EXCEPT !.op = "Diff",
                          !.list = Diff(commits[1].TreeID, commits[2].TreeID,
                                        commits[3].TreeID)]
  /\ UNCHANGED <<mpu, copier, call, commits, branches, staging, nextToken, dropped, proc, mrg, writes, rt, last>>

\* A call of CommittedManager.Merge(left, right, base)
MergeCall ==
  /\ LET m == Merge(commits[1].TreeID, commits[2].TreeID, commits[3].TreeID)
     IN  ret' = [NoRet EXCEPT !.op = "TreeMerge",
                             !.result = IF m.conflicts # {} THEN "Conflict" ELSE "ok",
                             !.conflicts = m.conflicts,
                             !.tree = m.tree]
  /\ UNCHANGED <<mpu, copier, call, commits, branches, staging, nextToken, dropped, proc, mrg, writes, rt, last>>

\* A call of CommittedManager.Apply(tree, changes)
ApplyCall ==
  /\ ret' = [NoRet EXCEPT !.op = "Apply",
                          !.tree = Apply(commits[1].TreeID, ListSnapshot(1))]
  /\ UNCHANGED <<mpu, copier, call, commits, branches, staging, nextToken, dropped, proc, mrg, writes, rt, last>>

TreeNext == DiffCall \/ MergeCall \/ ApplyCall

TreeSpec == TreeInit /\ [][TreeNext]_vars

\* ------------------------------------------------------ Catalog.ListEntries
\* Paths as texts, character by character, and the byte-wise order of the
\* characters in use
CharOrder == <<"/", "a", "b", "x", "y">>
CharRank(ch) == CHOOSE i \in 1..Len(CharOrder) : CharOrder[i] = ch

RECURSIVE PathLess(_, _)
PathLess(x, y) ==
  IF y = <<>> THEN FALSE
  ELSE IF x = <<>> THEN TRUE
  ELSE IF Head(x) = Head(y) THEN PathLess(Tail(x), Tail(y))
  ELSE CharRank(Head(x)) < CharRank(Head(y))

\* The paths of the listed tree, ascending: "a/x", "a/y", "b"
ListPaths == << <<"a", "/", "x">>, <<"a", "/", "y">>, <<"b">> >>
ListPrefixes == {<<>>, <<"a">>, <<"a", "/">>, <<"b">>}
ListFroms == {<<>>} \cup {ListPaths[i] : i \in 1..Len(ListPaths)}
Delimiters == {"", "/"}

HasPrefix(x, pre) == Len(pre) <= Len(x) /\ SubSeq(x, 1, Len(pre)) = pre

\* The position of the first delimiter d in rest, 0 when there is none
FirstDelimiter(rest, d) ==
  IF d = "" \/ \A i \in 1..Len(rest) : rest[i] # d THEN 0
  ELSE CHOOSE i \in 1..Len(rest) :
         rest[i] = d /\ \A j \in 1..(i - 1) : rest[j] # d

\* Variant: a listing that is never a CommonPrefix
ListingPlain(cp, path, entry) == [CommonPrefix |-> FALSE, Path |-> path, Entry |-> entry]

\* Listing represents either an entry or a CommonPrefix
Listing(cp, path, entry) == [CommonPrefix |-> cp, Path |-> path, Entry |-> entry]

\* The listing of one record: the CommonPrefix up to and including the first
\* delimiter after the prefix, or the entry itself
ListingOf(rec, prefix, d) ==
  LET k == FirstDelimiter(SubSeq(rec.Path, Len(prefix) + 1, Len(rec.Path)), d)
  IN  IF k > 0 THEN Listing(TRUE, SubSeq(rec.Path, 1, Len(prefix) + k), Nil)
      ELSE Listing(FALSE, rec.Path, rec.Entry)

\* The records of a stream: position i of vals holds the entry of ListPaths[i]
RECURSIVE StreamFrom(_, _)
StreamFrom(vals, i) ==
  IF i > Len(ListPaths) THEN <<>>
  ELSE IF vals[i] = NotFound THEN StreamFrom(vals, i + 1)
  ELSE <<[Path |-> ListPaths[i], Entry |-> vals[i]]>> \o StreamFrom(vals, i + 1)

\* The merge of the two sorted streams: staging overrides committed by path,
\* a tombstone suppresses the committed entry
RECURSIVE MergeStreams(_, _)
MergeStreams(st, cm) ==
  IF st = <<>> THEN cm
  ELSE IF cm # <<>> /\ PathLess(Head(cm).Path, Head(st).Path)
       THEN <<Head(cm)>> \o MergeStreams(st, Tail(cm))
  ELSE LET rest == IF cm # <<>> /\ Head(cm).Path = Head(st).Path
                   THEN MergeStreams(Tail(st), Tail(cm))
                   ELSE MergeStreams(Tail(st), cm)
       IN  IF IsTombstone(Head(st).Entry) THEN rest ELSE <<Head(st)>> \o rest

\* The listings of the records after `from` that begin with the prefix, a run
\* of records under one CommonPrefix folded into one listing
RECURSIVE Fold(_, _, _, _, _)
Fold(recs, prefix, from, d, acc) ==
  IF recs = <<>> THEN acc
  ELSE LET rec == Head(recs)
           l == ListingOf(rec, prefix, d)
       IN  IF ~PathLess(from, rec.Path) \/ ~HasPrefix(rec.Path, prefix)
           THEN Fold(Tail(recs), prefix, from, d, acc)
           ELSE IF acc # <<>> /\ acc[Len(acc)] = l
           THEN Fold(Tail(recs), prefix, from, d, acc)
           ELSE Fold(Tail(recs), prefix, from, d, Append(acc, l))

\* Catalog.ListEntries on a branch: up to amount listings and the hasMore flag
CatalogListEntries(st, cm, prefix, from, d, amount) ==
  LET all == Fold(MergeStreams(st, cm), prefix, from, d, <<>>)
  IN  [listings |-> SubSeq(all, 1, IF Len(all) < amount THEN Len(all) ELSE amount),
       hasMore |-> Len(all) > amount]

ListInit ==
  /\ \E sv \in [1..Len(ListPaths) -> {NotFound, Nil, "e2"}],
        cv \in [1..Len(ListPaths) -> {NotFound, "e1"}],
        prefix \in ListPrefixes, from \in ListFroms, d \in Delimiters,
        amount \in 0..MaxAmount :
       call = [op |-> "ListEntries", staged |-> sv, committed |-> cv, prefix |-> prefix,
               from |-> from, delimiter |-> d, amount |-> amount]
  /\ commits = <<Commit(EmptyTree, <<>>)>>
  /\ branches = [b \in Branches |-> IF b = "main" THEN Branch(1, 1) ELSE NoBranch]
  /\ staging = [t \in 1..MaxTokens |-> EmptyStaging]
  /\ nextToken = 2
  /\ dropped = {}
  /\ proc = [p \in Procs |-> Idle]
  /\ mrg = MergeIdle
  /\ writes = 0
  /\ ret = NoRet
  /\ rt = NoWrite
  /\ last = NoWrite
  /\ mpu = NoMultipart
  /\ copier = NoCopier

\* A call of Catalog.ListEntries(branch, prefix, from, delimiter, amount)
ListEntriesCall ==
  /\ call.op = "ListEntries"
  /\ LET r == CatalogListEntries(StreamFrom(call.staged, 1), StreamFrom(call.committed, 1),
                                 call.prefix, call.from, call.delimiter, call.amount)
     IN  ret' = [NoRet EXCEPT !.op = "ListEntries", !.list = r.listings,
                             !.result = IF r.hasMore THEN "hasMore" ELSE "done"]
  /\ UNCHANGED <<mpu, copier, call, commits, branches, staging, nextToken, dropped, proc, mrg, writes,
                 rt, last>>

ListNext == ListEntriesCall

ListSpec == ListInit /\ [][ListNext]_vars

\* ---------------------------------------------------------------- iterators
\* The xxxIterator protocol, the same for the five iterator kinds: the records
\* are identified by their keys (RepositoryID, Path, BranchID, CommitID)
Keys == 1..MaxKey
NoValue == 0                             \* Value() returns nil

\* The data of an iterator: records in strictly ascending key order
KeyLists ==
  {d \in UNION {[1..n -> Keys] : n \in 0..MaxKey} :
     \A i \in 1..Len(d), j \in 1..Len(d) : i < j => d[i] < d[j]}

\* it := NewXXXIterator(data)
NewIterator(data) ==
  [op |-> "Iterator", data |-> data, pos |-> 0, value |-> NoValue, err |-> "none",
   ok |-> FALSE, last |-> "new", k |-> 0, before |-> 0, prev |-> NoValue, closed |-> FALSE]

\* Variant: SeekGE that moves to the next record whatever the key
SeekGEAny(data, pos, k) == IF pos < Len(data) THEN pos + 1 ELSE Len(data) + 1

\* The position SeekGE(k) moves to: the least remaining record with key >= k,
\* past the end when there is none (the iterator is single-pass)
SeekGE(data, pos, k) ==
  IF \E i \in (pos + 1)..Len(data) : data[i] >= k
  THEN CHOOSE i \in (pos + 1)..Len(data) :
         data[i] >= k /\ \A j \in (pos + 1)..(i - 1) : data[j] < k
  ELSE Len(data) + 1

\* The iterator after a call of Next or SeekGE that moves to position target;
\* fail is a storage error or a cancellation met by this call. An error is
\* latched: every later call returns false
Advance(it, name, k, target, fail) ==
  LET told == [it EXCEPT !.last = name, !.k = k, !.before = it.pos,
                         !.prev = IF it.value # NoValue THEN it.value ELSE it.prev]
  IN  IF it.err # "none" \/ fail
      THEN [told EXCEPT !.ok = FALSE, !.value = NoValue,
                        !.err = IF it.err # "none" THEN it.err ELSE "Storage"]
      ELSE IF target > Len(it.data)
      THEN [told EXCEPT !.ok = FALSE, !.value = NoValue, !.pos = Len(it.data) + 1]
      ELSE [told EXCEPT !.ok = TRUE, !.value = it.data[target], !.pos = target]

\* Value() and Err()
Value == call.value
Err == call.err

IterInit ==
  /\ \E data \in KeyLists : call = NewIterator(data)
  /\ commits = <<Commit(EmptyTree, <<>>)>>
  /\ branches = [b \in Branches |-> IF b = "main" THEN Branch(1, 1) ELSE NoBranch]
  /\ staging = [t \in 1..MaxTokens |-> EmptyStaging]
  /\ nextToken = 2
  /\ dropped = {}
  /\ proc = [p \in Procs |-> Idle]
  /\ mrg = MergeIdle
  /\ writes = 0
  /\ ret = NoRet
  /\ rt = NoWrite
  /\ last = NoWrite
  /\ mpu = NoMultipart
  /\ copier = NoCopier

IterUnchanged ==
  UNCHANGED <<mpu, copier, commits, branches, staging, nextToken, dropped, proc, mrg, writes, ret,
              rt, last>>

\* it.Next()
IteratorNext(fail) ==
  /\ call.op = "Iterator" /\ ~call.closed
  /\ call' = Advance(call, "Next", 0,
                     IF call.pos < Len(call.data) THEN call.pos + 1
                     ELSE Len(call.data) + 1, fail)
  /\ IterUnchanged

\* it.SeekGE(k)
IteratorSeekGE(k, fail) ==
  /\ call.op = "Iterator" /\ ~call.closed
  /\ call' = Advance(call, "SeekGE", k, SeekGE(call.data, call.pos, k), fail)
  /\ IterUnchanged

\* it.Close()
IteratorClose ==
  /\ call.op = "Iterator" /\ ~call.closed
  /\ call' = [call EXCEPT !.closed = TRUE, !.last = "Close"]
  /\ IterUnchanged

IterNext ==
  \/ \E fail \in BOOLEAN : IteratorNext(fail)
  \/ \E k \in Keys, fail \in BOOLEAN : IteratorSeekGE(k, fail)
  \/ IteratorClose

IterSpec == IterInit /\ [][IterNext]_vars

\* ------------------------------------------------------------ RefManager.Log
\* The CreationDate values of commits: AddCommit stores the date the Commit
\* record carries, whatever the dates of its parents
Times == {1, 2}

\* The iterator Log(from) returns: a best-first walk keyed by descending
\* CreationDate with a visited set keyed by CommitID
NewLog(from, time) ==
  [op |-> "Log", from |-> from, time |-> time, queue |-> {from}, visited |-> {from},
   out |-> <<>>, done |-> FALSE]

\* The visited set after the parents of a yielded commit were queued
LogVisit(visited, parents) == visited \cup parents

LogInit ==
  /\ commits \in DAGs(MaxNodes)
  /\ \E from \in 1..MaxNodes, time \in [1..MaxNodes -> Times] : call = NewLog(from, time)
  /\ branches = [b \in Branches |-> IF b = "main" THEN Branch(1, 1) ELSE NoBranch]
  /\ staging = [t \in 1..MaxTokens |-> EmptyStaging]
  /\ nextToken = 2
  /\ dropped = {}
  /\ proc = [p \in Procs |-> Idle]
  /\ mrg = MergeIdle
  /\ writes = 0
  /\ ret = NoRet
  /\ rt = NoWrite
  /\ last = NoWrite
  /\ mpu = NoMultipart
  /\ copier = NoCopier

\* Next() on the iterator of Log: yield a queued commit of the latest
\* CreationDate and queue its parents not yet visited
LogYield ==
  /\ call.op = "Log" /\ ~call.done /\ call.queue # {}
  /\ \E c \in call.queue :
       /\ \A q \in call.queue : call.time[q] <= call.time[c]
       /\ LET fresh == ParentsOf(commits, c) \ call.visited
          IN  call' = [call EXCEPT !.out = Append(call.out, c),
                                   !.queue = (call.queue \ {c}) \cup fresh,
                                   !.visited = LogVisit(call.visited, ParentsOf(commits, c))]
  /\ IterUnchanged

\* Next() on the iterator of Log returns false: nothing is queued
LogEnd ==
  /\ call.op = "Log" /\ ~call.done /\ call.queue = {}
  /\ call' = [call EXCEPT !.done = TRUE]
  /\ IterUnchanged

LogNext == LogYield \/ LogEnd

LogSpec == LogInit /\ [][LogNext]_vars

\* The caller keeps calling Next() until it returns false
LogFairSpec == LogSpec /\ WF_vars(LogNext)

\* ------------------------------------------------------- KVMultipartManager
MaxPartsInMultipartUpload == 10000
MinPartInMultipartUpload == 1

UploadIds == 1..MaxUploads
\* Part numbers around the two limits
PartNumbers == {0, 1, 9999, 10000, 10001}
PartSizes == {1, 2}
\* The path uploads are created at and the paths later calls name; "a" and
\* "A" are equal under strings.EqualFold
UploadPaths == {"a"}
RequestPaths == {"a", "A", "b"}
NoUpload == ""

\* strings.EqualFold on the paths in use
EqualFold(x, y) ==
  LET lower(z) == IF z = "A" THEN "a" ELSE z
  IN  lower(x) = lower(y)

\* The store: upload records, part records per upload, workspace entries
\* (object sizes) per <<branch, path>>, and the number of upload ids generated
EmptyStore ==
  [uploads |-> [u \in UploadIds |-> NoUpload],
   parts |-> [u \in UploadIds |-> <<>>],
   workspace |-> <<>>,
   generated |-> 0]

\* tx.ReadMultipartUpload fails for an upload that is not in the store
HasUpload(st, u) == st.uploads[u] # NoUpload

\* tx.WriteMultipartUploadPart
WriteMultipartUploadPart(st, u, n, size) ==
  [st EXCEPT !.parts[u] = [k \in DOMAIN st.parts[u] \cup {n} |->
                            IF k = n THEN size ELSE st.parts[u][k]]]

\* tx.DeleteMultipartUploadParts
DeleteMultipartUploadParts(st, u) == [st EXCEPT !.parts[u] = <<>>]

\* tx.DeleteMultipartUpload
DeleteMultipartUpload(st, u) == [st EXCEPT !.uploads[u] = NoUpload]

\* tx.WriteToWorkspacePath
WriteToWorkspacePath(st, b, path, size) ==
  [st EXCEPT !.workspace = [k \in DOMAIN st.workspace \cup {<<b, path>>} |->
                              IF k = <<b, path>> THEN size ELSE st.workspace[k]]]

\* The part number check of UploadPart and CopyPart
ValidPartNumber(n) ==
  ~(n < MinPartInMultipartUpload \/ n >= MaxPartsInMultipartUpload)

\* Variant: only the first part counts
SizeOfFirst(ps) ==
  IF DOMAIN ps = {} THEN 0 ELSE ps[CHOOSE k \in DOMAIN ps : \A j \in DOMAIN ps : k <= j]

\* Complete's loop over the parts: size += part.GetSize()
RECURSIVE SizeOf(_)
SizeOf(ps) ==
  IF DOMAIN ps = {} THEN 0
  ELSE LET k == CHOOSE j \in DOMAIN ps : TRUE
       IN  ps[k] + SizeOf([j \in DOMAIN ps \ {k} |-> ps[j]])

\* The outcome of a transaction body: the store as the body left it, and its error
Out(st, err) == [store |-> st, err |-> err]

\* store.RepoTransact: the body's writes are kept when it returns no error
\* and are rolled back when it returns one
RepoTransact(before, out) == IF out.err = "ok" THEN out.store ELSE before

\* The body of Create; fail is the number of the step a storage error hits, 0 for none
CreateBody(st, u, path, fail) ==
  IF fail = 1 THEN Out(st, "Storage")
  ELSE IF fail = 2 THEN Out(st, "Storage")
  ELSE Out([st EXCEPT !.uploads[u] = path, !.generated = u], "ok")

\* The body of UploadPart
UploadPartBody(st, u, path, n, size, fail) ==
  IF fail = 1 THEN Out(st, "Storage")
  ELSE IF ~HasUpload(st, u) THEN Out(st, "NotFound")
  ELSE IF ~EqualFold(st.uploads[u], path) THEN Out(st, "ErrMultipartPathMismatch")
  ELSE IF ~ValidPartNumber(n) THEN Out(st, "ErrMultipartInvalidPartNumber")
  ELSE IF fail = 2 THEN Out(st, "Storage")
  ELSE Out(WriteMultipartUploadPart(st, u, n, size), "ok")

\* The body of CopyPart; size is the size of the source object, 0 when the
\* source branch or the object is not found
CopyPartBody(st, u, path, n, size, fail) ==
  IF fail = 1 THEN Out(st, "Storage")
  ELSE IF ~HasUpload(st, u) THEN Out(st, "NotFound")
  ELSE IF ~EqualFold(st.uploads[u], path) THEN Out(st, "ErrMultipartPathMismatch")
  ELSE IF ~ValidPartNumber(n) THEN Out(st, "ErrMultipartInvalidPartNumber")
  ELSE IF fail = 2 THEN Out(st, "Storage")
  ELSE IF size = 0 THEN Out(st, "NotFound")
  ELSE IF fail = 3 THEN Out(st, "Storage")
  ELSE Out(WriteMultipartUploadPart(st, u, n, size), "ok")

\* The body of Abort
AbortBody(st, u, fail) ==
  IF fail = 1 THEN Out(st, "Storage")
  ELSE IF ~HasUpload(st, u) THEN Out(st, "NotFound")
  ELSE IF fail = 2 THEN Out(st, "Storage")
  ELSE IF fail = 3 THEN Out(DeleteMultipartUploadParts(st, u), "Storage")
  ELSE Out(DeleteMultipartUpload(DeleteMultipartUploadParts(st, u), u), "ok")

\* The body of Complete: the path argument is not used, the entry goes to the upload's path
CompleteBody(st, b, path, u, fail) ==
  IF fail = 1 THEN Out(st, "Storage")
  ELSE IF ~HasUpload(st, u) THEN Out(st, "NotFound")
  ELSE IF fail = 2 THEN Out(st, "Storage")
  ELSE IF fail = 3 THEN Out(st, "Storage")
  ELSE LET written == WriteToWorkspacePath(st, b, st.uploads[u], SizeOf(st.parts[u]))
       IN  IF fail = 4 THEN Out(written, "Storage")
           ELSE IF fail = 5 THEN Out(DeleteMultipartUploadParts(written, u), "Storage")
           ELSE Out(DeleteMultipartUpload(DeleteMultipartUploadParts(written, u), u), "ok")

\* What a KVMultipartManager call returned
MultipartRet(op, u, n, b, err) ==
  [NoRet EXCEPT !.op = op, !.a = u, !.b = n, !.branch = b, !.result = err]

MultipartInit ==
  /\ mpu = EmptyStore
  /\ commits = <<Commit(EmptyTree, <<>>)>>
  /\ branches = [b \in Branches |-> IF b = "main" THEN Branch(1, 1) ELSE NoBranch]
  /\ staging = [t \in 1..MaxTokens |-> EmptyStaging]
  /\ nextToken = 2
  /\ dropped = {}
  /\ proc = [p \in Procs |-> Idle]
  /\ mrg = MergeIdle
  /\ writes = 0
  /\ ret = NoRet
  /\ rt = NoWrite
  /\ last = NoWrite
  /\ call = NoCall
  /\ copier = NoCopier

MultipartUnchanged ==
  UNCHANGED <<copier, call, commits, branches, staging, nextToken, dropped, proc, mrg,
              writes, rt, last>>

\* KVMultipartManager.Create
Create(path, fail) ==
  /\ mpu.generated < MaxUploads
  /\ LET u == mpu.generated + 1
         out == CreateBody(mpu, u, path, fail)
     IN  /\ mpu' = RepoTransact(mpu, out)
         /\ ret' = MultipartRet("Create", IF out.err = "ok" THEN u ELSE 0, 0, "", out.err)
  /\ MultipartUnchanged

\* KVMultipartManager.UploadPart
UploadPart(path, u, n, size, fail) ==
  /\ LET out == UploadPartBody(mpu, u, path, n, size, fail)
     IN  /\ mpu' = RepoTransact(mpu, out)
         /\ ret' = MultipartRet("UploadPart", u, n, "", out.err)
  /\ MultipartUnchanged

\* KVMultipartManager.CopyPart
CopyPart(path, u, n, size, fail) ==
  /\ LET out == CopyPartBody(mpu, u, path, n, size, fail)
     IN  /\ mpu' = RepoTransact(mpu, out)
         /\ ret' = MultipartRet("CopyPart", u, n, "", out.err)
  /\ MultipartUnchanged

\* KVMultipartManager.Abort
Abort(u, fail) ==
  /\ LET out == AbortBody(mpu, u, fail)
     IN  /\ mpu' = RepoTransact(mpu, out)
         /\ ret' = MultipartRet("Abort", u, 0, "", out.err)
  /\ MultipartUnchanged

\* KVMultipartManager.Complete
Complete(b, path, u, fail) ==
  /\ LET out == CompleteBody(mpu, b, path, u, fail)
     IN  /\ mpu' = RepoTransact(mpu, out)
         /\ ret' = MultipartRet("Complete", u, 0, "", out.err)
  /\ MultipartUnchanged

MultipartNext ==
  \/ \E path \in UploadPaths, fail \in 0..2 : Create(path, fail)
  \/ \E path \in RequestPaths, u \in UploadIds, n \in PartNumbers, size \in PartSizes,
        fail \in 0..2 : UploadPart(path, u, n, size, fail)
  \/ \E path \in RequestPaths, u \in UploadIds, n \in PartNumbers,
        size \in PartSizes \cup {0}, fail \in 0..3 : CopyPart(path, u, n, size, fail)
  \/ \E u \in UploadIds, fail \in 0..3 : Abort(u, fail)
  \/ \E b \in Branches, path \in RequestPaths, u \in UploadIds, fail \in 0..5 :
       Complete(b, path, u, fail)

MultipartSpec == MultipartInit /\ [][MultipartNext]_vars

\* ----------------------------------------------------------- copyFromReader
\* Errors: where the error arose, for a write error the chunk, and whether
\* errors.Is(err, io.EOF) holds for it. fmt.Errorf("write error: %w", err)
\* wraps the error of StageBlock, so a write error is io.EOF when StageBlock's is
NoErr == [src |-> "nil", chunk |-> 0, eof |-> FALSE]
IoEOF == [src |-> "reader", chunk |-> 0, eof |-> TRUE]
ReadErr == [src |-> "reader", chunk |-> 0, eof |-> FALSE]
CtxErr == [src |-> "ctx", chunk |-> 0, eof |-> FALSE]
StageErr == [src |-> "stage", chunk |-> 0, eof |-> FALSE]
WriteErr(i, eof) == [src |-> "write", chunk |-> i, eof |-> eof]

\* The copier of one copyFromReader call over a source of `full` whole chunks
\* and, when tail, a shorter last chunk, with n buffers
NewCopier(full, tail, n) ==
  [pc |-> "sendChunk", full |-> full, tail |-> tail, free |-> n,
   all |-> <<>>, num |-> 0,
   w |-> <<>>,                \* the writer of each chunk: where it stands
   errCh |-> <<>>,            \* make(chan error, 1)
   canceled |-> FALSE,        \* ctx.Err() != nil
   err |-> NoErr,             \* err of the loop in copyFromReader
   staged |-> {}, failed |-> {}, skipped |-> {},
   toIDs |-> <<>>, idsStaged |-> FALSE, sizeStaged |-> FALSE,
   waited |-> FALSE,          \* history: every writer had finished when toIDs was staged
   sent |-> <<>>,             \* history: the write errors in the order they were sent
   result |-> "none", returned |-> NoErr]

\* errCh is make(chan error, 1): a send goes through when the buffer is empty
ErrChHasRoom(ch) == Len(ch) < 1

\* copier.getErr: the error in errCh if there is one (taking it out), else ctx.Err()
GetErr(c) ==
  IF c.errCh # <<>> THEN [err |-> Head(c.errCh), errCh |-> Tail(c.errCh)]
  ELSE IF c.canceled THEN [err |-> CtxErr, errCh |-> c.errCh]
  ELSE [err |-> NoErr, errCh |-> c.errCh]

\* id.next: the id is the counter, which is then incremented (a uint32, far
\* from wrapping for the chunks of one copy)
IdNext(c) == [c EXCEPT !.all = Append(c.all, c.num), !.num = c.num + 1]

\* copyFromReader returns; the deferred cancel() cancels ctx
Return(c, result, err) ==
  [c EXCEPT !.pc = "done", !.result = result, !.returned = err, !.canceled = TRUE]

\* The writer of chunk i returns: wg.Done() and TransferManager.Put(buffer)
WriterReturn(c, i) ==
  [c EXCEPT !.w[i] = "done", !.free = IF c.free < MaxBuffers THEN c.free + 1 ELSE c.free]

\* sendChunk hands a chunk to a writer: id.next(), wg.Add(1), TransferManager.Run
Spawn(c) == [IdNext(c) EXCEPT !.w = Append(c.w, "queued")]

AllWritersDone(c) == \A i \in 1..Len(c.w) : c.w[i] = "done"

CopyInit ==
  /\ \E full \in 0..MaxChunks, tail \in BOOLEAN, n \in 1..MaxBuffers :
       /\ full + (IF tail THEN 1 ELSE 0) <= MaxChunks
       /\ copier = NewCopier(full, tail, n)
  /\ commits = <<Commit(EmptyTree, <<>>)>>
  /\ branches = [b \in Branches |-> IF b = "main" THEN Branch(1, 1) ELSE NoBranch]
  /\ staging = [t \in 1..MaxTokens |-> EmptyStaging]
  /\ nextToken = 2
  /\ dropped = {}
  /\ proc = [p \in Procs |-> Idle]
  /\ mrg = MergeIdle
  /\ writes = 0
  /\ ret = NoRet
  /\ rt = NoWrite
  /\ last = NoWrite
  /\ call = NoCall
  /\ mpu = NoMultipart

CopyUnchanged ==
  UNCHANGED <<mpu, call, commits, branches, staging, nextToken, dropped, proc, mrg,
              writes, ret, rt, last>>

\* copyFromReader, after the loop (lines 284-287): an error that is not io.EOF is returned
AfterLoop(c, err) ==
  IF err.eof THEN [c EXCEPT !.pc = "close", !.err = err] ELSE Return(c, "error", err)

\* sendChunk, line 366: getErr
SendChunkGetErr ==
  /\ copier.pc = "sendChunk"
  /\ LET g == GetErr(copier)
         c == [copier EXCEPT !.errCh = g.errCh]
     IN  copier' = IF g.err # NoErr THEN AfterLoop(c, g.err)
                   ELSE [c EXCEPT !.pc = "get"]
  /\ CopyUnchanged

\* sendChunk, line 370: TransferManager.Get waits for a free buffer
SendChunkGet ==
  /\ copier.pc = "get"
  /\ copier.free > 0
  /\ copier' = [copier EXCEPT !.pc = "read", !.free = copier.free - 1]
  /\ CopyUnchanged

\* sendChunk, lines 374-406: io.ReadFull and what follows; fail is a reader error
SendChunkRead(fail) ==
  /\ copier.pc = "read"
  /\ copier' =
       IF fail
       THEN LET g == GetErr(copier)
                c == [copier EXCEPT !.errCh = g.errCh]
            IN  AfterLoop(c, IF g.err # NoErr THEN g.err ELSE ReadErr)
       ELSE IF copier.full > 0
       THEN [Spawn(copier) EXCEPT !.pc = "sendChunk", !.full = copier.full - 1]
       ELSE IF copier.tail
       THEN AfterLoop([Spawn(copier) EXCEPT !.tail = FALSE], IoEOF)
       ELSE AfterLoop(copier, IoEOF)
  /\ CopyUnchanged

\* A writer goroutine of the TransferManager takes up the write of chunk i
WriterStart(i) ==
  /\ i \in 1..Len(copier.w)
  /\ copier.w[i] = "queued"
  /\ copier' = [copier EXCEPT !.w[i] = "check"]
  /\ CopyUnchanged

\* copier.write, lines 413-415: return when ctx is done
WriterCheck(i) ==
  /\ i \in 1..Len(copier.w)
  /\ copier.w[i] = "check"
  /\ copier' = IF copier.canceled
               THEN [WriterReturn(copier, i) EXCEPT !.skipped = copier.skipped \cup {i}]
               ELSE [copier EXCEPT !.w[i] = "stage"]
  /\ CopyUnchanged

\* copier.write, line 416: to.StageBlock succeeds, or fails with an error
\* that wraps io.EOF or one that does not
WriterStage(i, outcome) ==
  /\ i \in 1..Len(copier.w)
  /\ copier.w[i] = "stage"
  /\ copier' = IF outcome = "ok"
               THEN [WriterReturn(copier, i) EXCEPT !.staged = copier.staged \cup {i}]
               ELSE [copier EXCEPT !.w[i] = IF outcome = "eof" THEN "sendEOF" ELSE "send",
                                   !.failed = copier.failed \cup {i}]
  /\ CopyUnchanged

\* copier.write, line 418: c.errCh <- err, then return
WriterSend(i) ==
  /\ i \in 1..Len(copier.w)
  /\ copier.w[i] \in {"send", "sendEOF"}
  /\ ErrChHasRoom(copier.errCh)
  /\ LET e == WriteErr(i, copier.w[i] = "sendEOF")
     IN  copier' = [WriterReturn(copier, i) EXCEPT !.errCh = Append(copier.errCh, e),
                                                   !.sent = Append(copier.sent, e)]
  /\ CopyUnchanged

\* copier.close, line 426: wg.Wait returns when every writer has finished
CloseWait ==
  /\ copier.pc = "close"
  /\ AllWritersDone(copier)
  /\ copier' = [copier EXCEPT !.pc = "closeErr"]
  /\ CopyUnchanged

\* copier.close, lines 428-433, and lines 290-292
CloseGetErr ==
  /\ copier.pc = "closeErr"
  /\ LET g == GetErr(copier)
         c == [copier EXCEPT !.errCh = g.errCh]
     IN  copier' = IF g.err # NoErr THEN Return(c, "error", g.err)
                   ELSE [c EXCEPT !.pc = "stageIDs"]
  /\ CopyUnchanged

\* Lines 302-307: the issued ids are staged to toIDs
StageIDs(fail) ==
  /\ copier.pc = "stageIDs"
  /\ copier' = IF fail THEN Return(copier, "error", StageErr)
               ELSE [copier EXCEPT !.pc = "stageSizes", !.toIDs = copier.all,
                                   !.idsStaged = TRUE, !.waited = AllWritersDone(copier)]
  /\ CopyUnchanged

\* Lines 308-314: the size is staged to toSizes and the etag is returned
StageSizes(fail) ==
  /\ copier.pc = "stageSizes"
  /\ copier' = IF fail THEN Return(copier, "error", StageErr)
               ELSE Return([copier EXCEPT !.sizeStaged = TRUE], "ok", NoErr)
  /\ CopyUnchanged

\* The caller's context is canceled while copyFromReader runs
CtxCancel ==
  /\ copier.pc \notin {"none", "done"}
  /\ ~copier.canceled
  /\ copier' = [copier EXCEPT !.canceled = TRUE]
  /\ CopyUnchanged

\* The steps of the goroutine that runs copyFromReader
CopierStep ==
  \/ SendChunkGetErr
  \/ SendChunkGet
  \/ \E fail \in BOOLEAN : SendChunkRead(fail)
  \/ CloseWait
  \/ CloseGetErr
  \/ \E fail \in BOOLEAN : StageIDs(fail)
  \/ \E fail \in BOOLEAN : StageSizes(fail)

\* The steps of the writer of chunk i
WriterStep(i) ==
  \/ WriterStart(i)
  \/ WriterCheck(i)
  \/ \E outcome \in {"ok", "eof", "other"} : WriterStage(i, outcome)
  \/ WriterSend(i)

CopyNext ==
  \/ CopierStep
  \/ \E i \in 1..MaxChunks : WriterStep(i)
  \/ CtxCancel

CopySpec == CopyInit /\ [][CopyNext]_vars

\* Every goroutine that can take a step eventually takes one
CopyFairSpec ==
  CopySpec /\ WF_vars(CopierStep) /\ \A i \in 1..MaxChunks : WF_vars(WriterStep(i))

\* ------------------------------------------------------------- properties
\* The ancestors of commit c in the DAG cs, c included
RECURSIVE AncestorsIn(_, _)
AncestorsIn(cs, c) == {c} \cup UNION {AncestorsIn(cs, q) : q \in ParentsOf(cs, c)}
Ancestors(c) == AncestorsIn(commits, c)

\* The first-parent chain from commit c, c included
RECURSIVE FirstParentChain(_)
FirstParentChain(c) ==
  IF Len(commits[c].Parents) = 0 THEN {c}
  ELSE {c} \cup FirstParentChain(commits[c].Parents[1])

\* What a read of path on branch b returns
Read(b, path) == CatalogGetEntry(BranchRef(b), path)

\* ---------------------------------------------------------------------- C1
\* C1: a SetEntry(P, E) followed by a successful Commit on the branch, with no
\* other step in between, is followed by GetEntry(branch, P) = E; a DeleteEntry(P)
\* followed by such a Commit is followed by GetEntry(branch, P) = NotFound,
\* whatever the tree held at P before.
C1_RoundTrip ==
  rt.stage = "done" =>
    Read(rt.branch, rt.path) = IF IsTombstone(rt.entry) THEN NotFound ELSE rt.entry

\* A DeleteEntry and a Commit have run on a branch whose tip held the path
C1_Witness ==
  /\ rt.stage = "done"
  /\ IsTombstone(rt.entry)
  /\ LET c == GetBranch(rt.branch).CommitID
     IN  /\ Len(commits[c].Parents) = 1
         /\ commits[commits[c].Parents[1]].TreeID[rt.path] \in Entries

\* ---------------------------------------------------------------------- C2
\* C2: GetEntry on a branch returns the entry staged at the path under the
\* branch's current token, NotFound for a staged tombstone even when the tip's
\* tree has the path, and the tip tree's entry only when nothing is staged;
\* GetEntry on a commit ID returns the entry of that commit's tree, whatever
\* is staged.
C2_StagingOverCommitted ==
  /\ \A b \in Branches, path \in Paths :
       BranchExists(b) =>
         LET s == staging[branches[b].stagingToken][path]
             t == commits[branches[b].CommitID].TreeID[path]
         IN  /\ s \in Entries => Read(b, path) = s
             /\ s = Nil => Read(b, path) = NotFound
             /\ s = NotFound => Read(b, path) = t
  /\ \A c \in CommitIDs, path \in Paths :
       CatalogGetEntry(CommitRef(c), path) = commits[c].TreeID[path]

\* A tombstone is staged over a committed entry that an earlier commit lacks
C2_Witness ==
  \E p1 \in Paths :
    LET b == "main"
        st == branches[b].stagingToken
        c == branches[b].CommitID
    IN  /\ staging[st][p1] = Nil
        /\ commits[c].TreeID[p1] \in Entries
        /\ CatalogGetEntry(CommitRef(c), p1) \in Entries
        /\ Read(b, p1) = NotFound
        /\ \E c2 \in CommitIDs : commits[c2].TreeID[p1] = NotFound

C4_Original ==
  \A p \in Procs :
    /\ proc[p].pc \in {"load", "apply"} => staging[proc[p].old] = proc[p].frozen
    /\ proc[p].pc \in {"setbranch", "drop"} =>
         commits[proc[p].newCommit].TreeID =
           Apply(commits[proc[p].C].TreeID, ScanFrom(proc[p].frozen, 1))

\* ---------------------------------------------------------------------- C5
\* C5 as stated: Commits on one branch are linearized by a compare-and-set
\* SetBranch, so the branch's history is a single first-parent chain and no
\* commit is overwritten or orphaned: every commit is on the first-parent
\* chain of the branch tip, or is the new commit of a Commit that has not yet
\* reached its SetBranch.
C5_Original ==
  \A c \in CommitIDs :
    \/ c \in FirstParentChain(GetBranch("main").CommitID)
    \/ \E p \in Procs : proc[p].pc = "setbranch" /\ proc[p].newCommit = c

\* ---------------------------------------------------------------------- C6
\* C6: a Commit on a branch whose staging is empty, or that follows a
\* successful Commit on the branch with no step in between, fails with
\* NothingToCommit and changes neither the branches, the commits, nor staging.
C6_NothingToCommit ==
  [][\A b \in Branches :
       ( /\ ret'.op = "Commit"
         /\ ret'.branch = b
         /\ ret'.result \in {"NothingToCommit", "started"}
         /\ \/ staging[branches[b].stagingToken] = EmptyStaging
            \/ rt.stage = "done" /\ rt.branch = b )
       => (ret'.result = "NothingToCommit" /\ UNCHANGED core)]_vars

\* A Commit has failed with NothingToCommit after an earlier Commit succeeded
C6_Witness ==
  /\ ret.op = "Commit"
  /\ ret.result = "NothingToCommit"
  /\ GetBranch(ret.branch).CommitID > 1
  /\ staging[GetBranch(ret.branch).stagingToken] = EmptyStaging

\* ---------------------------------------------------------------------- C7
\* C7: a Merge(from, to) where some path differs between the two sides and
\* differs on each side from the merge base fails with Conflict naming exactly
\* those paths, and changes neither the branches, the commits, nor staging.
C7_MergeConflict ==
  [][\A from \in Refs, to \in Branches :
       (mrg.pc = "idle" /\ ret'.op = "Merge" /\ ret'.from = from /\ ret'.branch = to) =>
         LET F == IF from.kind = "commit" THEN from.commit ELSE branches[from.branch].CommitID
             T == branches[to].CommitID
             base == FindMergeBase(F, T)
             conflicting == {path \in Paths :
                               /\ commits[F].TreeID[path] # commits[T].TreeID[path]
                               /\ commits[F].TreeID[path] # commits[base].TreeID[path]
                               /\ commits[T].TreeID[path] # commits[base].TreeID[path]}
         IN  (F \in CommitIDs /\ base # NoCommit /\ conflicting # {}) =>
               /\ ret'.result = "Conflict"
               /\ ret'.conflicts = conflicting
               /\ mrg' = mrg
               /\ UNCHANGED core]_vars

\* A Merge has failed with Conflict between two branches that diverged
C7_Witness ==
  /\ ret.op = "Merge"
  /\ ret.result = "Conflict"
  /\ ret.conflicts # {}
  /\ ret.from.kind = "branch"
  /\ GetBranch(ret.branch).CommitID = ret.b
  /\ GetBranch(ret.from.branch).CommitID = ret.a
  /\ ret.base \notin {ret.a, ret.b}

\* ---------------------------------------------------------------------- C8
\* C8: with F and T the commits of from and to, a Merge(from, to) whose merge
\* base is T adds no commit and advances branch to to F, leaving everything
\* else as it was; a Merge whose merge base is F (and not T) changes nothing.
C8_FastForward ==
  [][/\ \A from \in Refs, to \in Branches :
          (mrg.pc = "idle" /\ ret'.op = "Merge" /\ ret'.from = from /\ ret'.branch = to) =>
            LET F == IF from.kind = "commit" THEN from.commit
                     ELSE branches[from.branch].CommitID
                T == branches[to].CommitID
            IN  /\ (F \in CommitIDs /\ FindMergeBase(F, T) = T) =>
                     /\ UNCHANGED core
                     /\ mrg'.pc = "setbranch" /\ mrg'.to = to /\ mrg'.F = F /\ mrg'.base = T
                /\ (F \in CommitIDs /\ FindMergeBase(F, T) = F /\ F # T) =>
                     /\ UNCHANGED core
                     /\ mrg' = mrg
                     /\ ret'.result = "ok"
     /\ (mrg.pc = "setbranch" /\ mrg'.pc = "idle" /\ mrg.base = mrg.T) =>
          /\ branches' = [branches EXCEPT ![mrg.to].CommitID = mrg.F]
          /\ UNCHANGED <<commits, staging, nextToken, dropped>>]_vars

\* A fast-forward Merge has advanced a branch to another commit
C8_Witness ==
  /\ ret.op = "Merge"
  /\ ret.result = "ok"
  /\ ret.from = NoRef
  /\ ret.base = ret.b
  /\ ret.a # ret.b
  /\ GetBranch(ret.branch).CommitID = ret.a
  /\ Len(commits) = 2

\* ---------------------------------------------------------------------- C9
\* C9 as stated: a commit made by Commit on branch B has exactly one parent,
\* B's tip just before the commit becomes the tip; a Merge commit has parents
\* [T, F] with T the tip of to just before; so the first parent of every
\* commit on a branch is the branch's prior tip.
C9_Original ==
  [][/\ \A p \in Procs :
          (proc[p].pc = "setbranch" /\ proc'[p].pc = "drop") =>
            commits[proc[p].newCommit].Parents = <<GetBranch(proc[p].branch).CommitID>>
     /\ (mrg.pc = "setbranch" /\ mrg'.pc = "idle" /\ mrg.base # mrg.T) =>
          commits[mrg.target].Parents = <<GetBranch(mrg.to).CommitID, mrg.F>>]_vars

\* --------------------------------------------------------------------- C10
\* C10 as stated: FindMergeBase(a, b) = FindMergeBase(b, a); the commit it
\* returns is an ancestor of both a and b and no strict descendant of it is an
\* ancestor of both; NotFound is returned exactly when a and b share no ancestor.
C10_Original ==
  ret.op = "FindMergeBase" =>
    LET common == Ancestors(ret.a) \cap Ancestors(ret.b)
    IN  /\ ret.base = FindMergeBase(ret.b, ret.a)
        /\ (ret.result = NotFound) <=> (common = {})
        /\ ret.result # NotFound =>
             /\ ret.base \in common
             /\ \A d \in common \ {ret.base} : ret.base \notin Ancestors(d)

\* --------------------------------------------------------------------- C11
\* C11: CommittedManager.Merge(left, right, base) returns left's tree when
\* right equals left, returns right's tree when left equals base, and returns
\* left's tree whenever Diff(left, right, base) is empty; none of these cases
\* reports a conflict.
C11_MergeIdentity ==
  ret.op = "TreeMerge" =>
    LET left == commits[1].TreeID
        right == commits[2].TreeID
        base == commits[3].TreeID
    IN  /\ right = left => (ret.result = "ok" /\ ret.tree = left)
        /\ left = base => (ret.result = "ok" /\ ret.tree = right)
        /\ (\A p \in Paths : left[p] = right[p]) => (ret.result = "ok" /\ ret.tree = left)

\* Merge has returned right's tree for a left that equals the base and differs
\* from right
C11_Witness ==
  /\ ret.op = "TreeMerge"
  /\ commits[1].TreeID = commits[3].TreeID
  /\ commits[1].TreeID # commits[2].TreeID
  /\ ret.result = "ok"
  /\ ret.tree = commits[2].TreeID

\* --------------------------------------------------------------------- C12
\* C12: Diff(left, right, base) yields a path equal in left and right not at
\* all, and every path where they differ exactly once, with one DiffType:
\* Conflict exactly when left and right both differ from base (and from each
\* other), otherwise Added when the path is absent from left, Removed when it
\* is absent from right, Changed when it is present in both.
C12_DiffClassifies ==
  ret.op = "Diff" =>
    \A p \in Paths :
      LET l == commits[1].TreeID[p]
          r == commits[2].TreeID[p]
          b == commits[3].TreeID[p]
          at == {i \in 1..Len(ret.list) : ret.list[i].Path = p}
      IN  /\ l = r => at = {}
          /\ l # r =>
               /\ Cardinality(at) = 1
               /\ \A i \in at :
                    /\ (ret.list[i].Type = "conflict") <=> (l # b /\ r # b)
                    /\ (l = b \/ r = b) =>
                         ret.list[i].Type = IF l = NotFound THEN "added"
                                            ELSE IF r = NotFound THEN "removed"
                                            ELSE "changed"

\* Diff has yielded both paths, one as a conflict and one as a removal
C12_Witness ==
  /\ ret.op = "Diff"
  /\ Len(ret.list) = 2
  /\ ret.list[1].Type = "conflict"
  /\ ret.list[2].Type = "removed"

\* --------------------------------------------------------------------- C13
\* C13: Apply(tree, changes) returns a tree that, for every path, holds the
\* change's entry when the changes have a non-tombstone entry for the path,
\* holds nothing when they have a tombstone for it (also when the tree did not
\* have the path), and otherwise holds the input tree's entry; the result
\* contains no tombstone.
C13_ApplyOverlay ==
  ret.op = "Apply" =>
    \A p \in Paths :
      /\ staging[1][p] \in Entries => ret.tree[p] = staging[1][p]
      /\ staging[1][p] = Nil => ret.tree[p] = NotFound
      /\ staging[1][p] = NotFound => ret.tree[p] = commits[1].TreeID[p]
      /\ ret.tree[p] # Nil

\* Apply has dropped a tombstone for a path the tree did not have, and has
\* removed a path the tree had
C13_Witness ==
  /\ ret.op = "Apply"
  /\ \E p \in Paths : staging[1][p] = Nil /\ commits[1].TreeID[p] = NotFound
  /\ \E p \in Paths : staging[1][p] = Nil /\ commits[1].TreeID[p] \in Entries
  /\ ret.tree = EmptyTree

\* --------------------------------------------------------------------- C14
\* C14: ListEntries on a branch returns, strictly ascending by path, the
\* listings of the merged view (the staged entry where one is staged, nothing
\* where a tombstone is staged, the committed entry otherwise) of the paths
\* after `from` that begin with the prefix, every run of paths equal up to and
\* including the first delimiter after the prefix being one CommonPrefix
\* listing; it returns the first `amount` of them, all of them when there are
\* fewer, and hasMore exactly when listings remain.
C14_ListEntries ==
  ret.op = "ListEntries" =>
    LET view(i) == IF call.staged[i] = NotFound THEN call.committed[i]
                   ELSE IF call.staged[i] = Nil THEN NotFound
                   ELSE call.staged[i]
        shown == {i \in 1..Len(ListPaths) :
                    /\ view(i) # NotFound
                    /\ PathLess(call.from, ListPaths[i])
                    /\ HasPrefix(ListPaths[i], call.prefix)}
        cut(i) == FirstDelimiter(SubSeq(ListPaths[i], Len(call.prefix) + 1,
                                        Len(ListPaths[i])), call.delimiter)
        want(i) == IF cut(i) > 0
                   THEN [CommonPrefix |-> TRUE,
                         Path |-> SubSeq(ListPaths[i], 1, Len(call.prefix) + cut(i)),
                         Entry |-> Nil]
                   ELSE [CommonPrefix |-> FALSE, Path |-> ListPaths[i], Entry |-> view(i)]
        all == {want(i) : i \in shown}
        got == {ret.list[k] : k \in 1..Len(ret.list)}
    IN  /\ \A k \in 1..(Len(ret.list) - 1) : PathLess(ret.list[k].Path, ret.list[k + 1].Path)
        /\ got \subseteq all
        /\ \A x \in all \ got : \A y \in got : PathLess(y.Path, x.Path)
        /\ Len(ret.list) = IF Cardinality(all) < call.amount
                           THEN Cardinality(all) ELSE call.amount
        /\ (ret.result = "hasMore") <=> (Cardinality(all) > call.amount)

\* The committed "a/x" and a staged "a/y" fold into CommonPrefix "a/", a
\* tombstone hides the committed "b", and nothing remains after the page
C14_Witness ==
  /\ ret.op = "ListEntries"
  /\ call.delimiter = "/"
  /\ call.prefix = <<>>
  /\ call.committed[1] = "e1" /\ call.staged[1] = NotFound
  /\ call.staged[2] = "e2"
  /\ call.committed[3] = "e1" /\ call.staged[3] = Nil
  /\ ret.list = <<[CommonPrefix |-> TRUE, Path |-> <<"a", "/">>, Entry |-> Nil]>>
  /\ ret.result = "done"

\* --------------------------------------------------------------------- C15
\* C15: after a Commit on a branch was canceled between Apply and SetBranch,
\* the branch record is the one the Commit found (same CommitID, same
\* StagingToken), and the retry of the Commit does not fail with
\* NothingToCommit: it succeeds, and the tree of its commit holds every write
\* that was staged before the canceled attempt (unless a later write replaced it).
C15_Original ==
  call.op = "Canceled" =>
    LET b == call.branch
        retried == ret.op = "Commit" /\ ret.branch = b /\ Len(commits) = call.n + 1
    IN  /\ (proc[1].pc = "idle" /\ Len(commits) = call.n)
             => GetBranch(b) = Branch(call.C, call.old)
        /\ ~(ret.op = "Commit" /\ ret.branch = b /\ ret.result = "NothingToCommit"
               /\ Len(commits) = call.n)
        /\ (retried /\ ret.result = "ok") =>
             \A path \in Paths :
               call.frozen[path] # NotFound =>
                 \/ last.stage = "written" /\ last.branch = b /\ last.path = path
                 \/ CommittedGetEntry(GetCommit(GetBranch(b).CommitID).TreeID, path)
                      = IF IsTombstone(call.frozen[path]) THEN NotFound
                        ELSE call.frozen[path]

\* --------------------------------------------------------------------- C16
\* C16 as stated: in every reachable state every branch's CommitID names a
\* commit that exists and every branch's StagingToken names an allocated
\* staging namespace that has not been dropped.
C16_Original ==
  \A b \in Branches :
    BranchExists(b) =>
      /\ GetBranch(b).CommitID \in CommitIDs
      /\ GetBranch(b).stagingToken \in 1..(nextToken - 1)
      /\ GetBranch(b).stagingToken \notin dropped

\* --------------------------------------------------------------------- C17
\* C17 as stated: no StagingToken is the current token of two branches, and a
\* token that a Snapshot has replaced is frozen: no later SetEntry or
\* DeleteEntry changes what ListSnapshot reads through it.
C17_Original ==
  /\ [](\A b1 \in Branches, b2 \in Branches :
          (b1 # b2 /\ BranchExists(b1) /\ BranchExists(b2))
            => GetBranch(b1).stagingToken # GetBranch(b2).stagingToken)
  /\ [][writes' # writes =>
          \A p \in Procs :
            proc[p].pc \in {"load", "apply", "setbranch", "drop"} =>
              ScanFrom(staging'[proc[p].old], 1) = ListSnapshot(proc[p].old)]_vars

\* --------------------------------------------------------------------- C20
\* C20 as stated: no staged write is lost. Once every Commit on the branch has
\* finished, the latest write to a path is what a read of the branch returns:
\* it is in the branch's current token or in the tree of the branch's tip.
C20_Original ==
  ((\A p \in Procs : proc[p].pc = "idle") /\ last.stage = "written") =>
    Read(last.branch, last.path) =
      IF IsTombstone(last.entry) THEN NotFound ELSE last.entry

C19_Original ==
  /\ <>(call.op = "Log" /\ call.done)
  /\ [](call.op = "Log" /\ call.done =>
          LET out == call.out
          IN  /\ {out[i] : i \in 1..Len(out)} = Ancestors(call.from)
              /\ Len(out) = Cardinality(Ancestors(call.from))
              /\ out[1] = call.from
              /\ commits[out[Len(out)]].Parents = <<>>
              /\ \A i \in 1..Len(out), j \in 1..Len(out) :
                   i < j => out[i] \notin Ancestors(out[j]))

\* --------------------------------------------------------------------- C21
\* C21 as stated: UploadPart and CopyPart on an existing upload, with its
\* path, accept every part number from 1 to 10000, both included, and reject
\* every other part number with ErrMultipartInvalidPartNumber, writing no part
\* record when they reject.
C21_Original ==
  [][(ret'.op \in {"UploadPart", "CopyPart"} /\ HasUpload(mpu, ret'.a)
        /\ ret'.result \notin {"Storage", "NotFound", "ErrMultipartPathMismatch"})
      => IF ret'.b \in 1..10000
         THEN ret'.result = "ok" /\ ret'.b \in DOMAIN mpu'.parts[ret'.a]
         ELSE ret'.result = "ErrMultipartInvalidPartNumber" /\ mpu' = mpu]_vars

\* --------------------------------------------------------------------- C22
\* C22: an upload that is not in the store has no part records and is never
\* created again. After a successful Abort or Complete the upload and its
\* parts are gone; UploadPart, CopyPart, Abort and Complete on an upload that
\* is not in the store fail and change nothing; Abort leaves the workspaces
\* alone; a successful Complete writes one workspace entry, at the upload's
\* path, whose size is the sum of the sizes of the parts then stored; and a
\* call that returns an error leaves uploads, parts and workspaces unchanged.
C22_Lifecycle ==
  /\ [](\A u \in UploadIds : ~HasUpload(mpu, u) => mpu.parts[u] = <<>>)
  /\ [][LET u == ret'.a
            op == ret'.op
            ok == ret'.result = "ok"
            at(k) == IF k \in DOMAIN mpu.parts[u] THEN mpu.parts[u][k] ELSE 0
            total == at(0) + at(1) + at(9999) + at(10000) + at(10001)
        IN  /\ \A v \in UploadIds :
                 (HasUpload(mpu', v) /\ ~HasUpload(mpu, v)) => v = mpu.generated + 1
            /\ (op \in {"Abort", "Complete"} /\ ok) =>
                 ~HasUpload(mpu', u) /\ mpu'.parts[u] = <<>>
            /\ (op \in {"UploadPart", "CopyPart", "Abort", "Complete"}
                  /\ ~HasUpload(mpu, u)) => (~ok /\ mpu' = mpu)
            /\ op = "Abort" => mpu'.workspace = mpu.workspace
            /\ (op = "Complete" /\ ok) =>
                 \E b \in Branches :
                   /\ DOMAIN mpu'.workspace = DOMAIN mpu.workspace \cup {<<b, mpu.uploads[u]>>}
                   /\ mpu'.workspace[<<b, mpu.uploads[u]>>] = total
                   /\ \A k \in DOMAIN mpu.workspace :
                        k # <<b, mpu.uploads[u]>> => mpu'.workspace[k] = mpu.workspace[k]
            /\ (op # "none" /\ ~ok) => mpu' = mpu]_vars

\* Complete of an upload with two parts of sizes 1 and 2 has written an entry
\* of size 3 and removed the upload
C22_Witness ==
  /\ ret.op = "Complete" /\ ret.result = "ok" /\ ret.a = 1
  /\ ~HasUpload(mpu, 1)
  /\ mpu.parts[1] = <<>>
  /\ DOMAIN mpu.workspace = {<<"dev", "a">>}
  /\ mpu.workspace[<<"dev", "a">>] = 3

\* --------------------------------------------------------------------- C23
\* C23 as stated: copyFromReader always terminates. Whatever chunk writes
\* fail, every writer eventually finishes and copyFromReader eventually returns.
C23_Original == <>(copier.pc = "done" /\ AllWritersDone(copier))

\* --------------------------------------------------------------------- C24
\* C24 as stated: when copyFromReader returns success, every chunk read was
\* staged under its own id, no chunk write failed or was skipped, every chunk
\* write had finished when the id list was staged, and the staged id list is
\* the list of the issued ids, pairwise distinct, in the order of the reads.
C24_Original ==
  (copier.pc = "done" /\ copier.result = "ok") =>
    /\ copier.staged = 1..Len(copier.all)
    /\ copier.failed = {} /\ copier.skipped = {}
    /\ copier.waited
    /\ copier.idsStaged /\ copier.sizeStaged
    /\ copier.toIDs = copier.all
    /\ \A i \in 1..Len(copier.all), j \in 1..Len(copier.all) :
         i < j => copier.all[i] < copier.all[j]
====
